---- MODULE Spec2Model ----
(***************************************************************************)
(* Model of cache.Cache (src/cache/cache.go): a map from key to Item       *)
(* (Value, Expiration) behind a sync.RWMutex, written by Set*, Delete and  *)
(* the background sweep deleteExpired, read by Get, with the cleanup       *)
(* goroutine startCleanupTimer driven by the ticker of the injected clock  *)
(* and ended by Stop through the unbuffered channel stopCleanup.           *)
(*                                                                         *)
(* A goroutine's step runs from one point where another goroutine can     *)
(* change what it sees to the next: a clock reading taken outside the      *)
(* mutex is a step of its own, taking the mutex and the map accesses made  *)
(* under it are one step, and the deferred unlock is the next one.         *)
(* Time is the clock's UnixNano reading, a positive integer that never     *)
(* decreases; now + ttl stays inside int64.                                *)
(***************************************************************************)
EXTENDS Integers, FiniteSets, TLC

\* ---------------------------------------------------------------- bounds
MaxClock == 3        \* the clock is advanced up to this reading
MaxOps == 2          \* calls of Set*, Delete and Stop, in total (Get is free)

\* ------------------------------------------------------------ input sets
Procs == {"g1", "g2"}            \* caller goroutines
Keys == {"foo", "bar"}
Values == {"v1", "v2"}
Durations == {-1, 1}             \* expiration arguments (time.Duration)
DefaultExpirations == {0, 1}     \* NewCache's defaultExpiration
CleanupIntervals == {0, 2}       \* NewCache's cleanupInterval
Steps == {1, 2}                  \* clock.Advance arguments
ClockStart == 1                  \* the clock's first reading (UnixNano > 0)

Nil == "nil"                     \* Go's nil (any)
NoKey == "-"
NoHolder == "none"
Cleaner == "cleanup"             \* the goroutine running startCleanupTimer

VARIABLES
    items,              \* Cache.items: map[string]Item
    defaultExpiration,  \* Cache.defaultExpiration
    cleanupInterval,    \* Cache.cleanupInterval
    clock,              \* c.clock.Now().UnixNano()
    muWriter,           \* Cache.mu: the goroutine holding Lock, or NoHolder
    muReaders,          \* Cache.mu: the goroutines holding RLock
    frame,              \* per caller goroutine: position and locals of its call
    cleanupPc,          \* position of the startCleanupTimer goroutine
    cleanupNow,         \* deleteExpired's local `now`
    tickerNext,         \* ticker: the reading at which it fires next
    tickerChan,         \* ticker.Chan(): TRUE when a tick is buffered
    hist,               \* per key: the last write that completed (history)
    opsLeft,            \* calls of Set*, Delete and Stop still to be made
    stopsCalled,        \* calls of Stop made
    stopsReturned       \* calls of Stop that returned

vars == <<items, defaultExpiration, cleanupInterval, clock, muWriter, muReaders,
          frame, cleanupPc, cleanupNow, tickerNext, tickerChan, hist, opsLeft,
          stopsCalled, stopsReturned>>

\* ------------------------------------------------------------------ Item

\* type Item struct { Value any; Expiration int64 }
Item(v, e) == [Value |-> v, Expiration |-> e]

\* make(map[string]Item)
EmptyMap == [x \in {} |-> Item(Nil, 0)]

\* Variant: the store leaves a key that is already in the map as it is
MapStoreIfAbsent(m, k, it) ==
    [x \in (DOMAIN m) \cup {k} |-> IF x = k /\ k \notin DOMAIN m THEN it ELSE m[x]]

\* Variant: the store replaces the value of a key that is already in the map
\* and keeps its Expiration
MapStoreKeepExpiration(m, k, it) ==
    [x \in (DOMAIN m) \cup {k} |->
        IF x # k THEN m[x]
        ELSE IF k \in DOMAIN m THEN [Value |-> it.Value, Expiration |-> m[k].Expiration]
        ELSE it]

\* Variant: of the entry in the map and the entry stored, the one whose
\* Expiration is later stays
MapStoreNewest(m, k, it) ==
    [x \in (DOMAIN m) \cup {k} |->
        IF x # k THEN m[x]
        ELSE IF k \in DOMAIN m /\ it.Expiration < m[k].Expiration THEN m[k]
        ELSE it]

\* c.items[key] = item
MapStore(m, k, it) == [x \in (DOMAIN m) \cup {k} |-> IF x = k THEN it ELSE m[x]]

\* Variant: the delete empties the map
MapDeleteClears(m, k) == EmptyMap

\* Variant: the delete removes nothing
MapDeleteNothing(m, k) == m

\* delete(c.items, key)
MapDelete(m, k) == [x \in (DOMAIN m) \ {k} |-> m[x]]

\* ----------------------------------------------------------------- frames

\* A caller goroutine between calls. key, value, expiration, exp and found
\* are the parameters, locals and results of the call in progress; at, now
\* and prev record the clock reading when the call began, the clock reading
\* Get compared with, and the Expiration of the entry a write replaced.
IdleFrame ==
    [pc |-> "idle", key |-> NoKey, value |-> Nil, expiration |-> 0, exp |-> 0,
     found |-> FALSE, at |-> 0, now |-> 0, prev |-> -1]

\* A key no call has written yet
NoWrite == [kind |-> "none", val |-> Nil, ttl |-> 0, at |-> 0]

\* ------------------------------------------------------------- sync.RWMutex

\* Variant: Lock does not wait for the readers
CanLockPastReaders == muWriter = NoHolder

\* c.mu.Lock() can return
CanLock == muWriter = NoHolder /\ muReaders = {}

\* c.mu.RLock() can return: nobody holds Lock, and the cleanup goroutine is
\* not waiting in Lock (a waiting writer holds back new readers). A caller
\* waiting in Lock is not told apart from one that has yet to call it, and
\* new readers are let in past it.
CanRLock == muWriter = NoHolder /\ cleanupPc # "sweep_wait"

\* ------------------------------------------------------------------ NewCache

Init ==
    /\ items = EmptyMap
    /\ defaultExpiration \in DefaultExpirations
    /\ cleanupInterval \in CleanupIntervals
    /\ clock = ClockStart
    /\ muWriter = NoHolder
    /\ muReaders = {}
    /\ frame = [p \in Procs |-> IdleFrame]
    /\ cleanupPc = IF cleanupInterval > 0 THEN "start" ELSE "none"
    /\ cleanupNow = 0
    /\ tickerNext = 0
    /\ tickerChan = FALSE
    /\ hist = [k \in Keys |-> NoWrite]
    /\ opsLeft = MaxOps
    /\ stopsCalled = 0
    /\ stopsReturned = 0

\* --------------------------------------------------------- Set* (callers)

\* SetWithExpiration, lines 54-57: exp is 0 unless 0 < expiration, and then
\* the clock is read once, before the mutex is taken.
Expiration(now, expiration) == IF 0 < expiration THEN now + expiration ELSE 0

SetWithExpirationEnter(p, k, v, expiration) ==
    /\ frame[p].pc = "idle"
    /\ opsLeft > 0
    /\ opsLeft' = opsLeft - 1
    /\ frame' = [frame EXCEPT ![p] =
                    [IdleFrame EXCEPT !.pc = "set_lock", !.key = k, !.value = v,
                                      !.expiration = expiration,
                                      !.exp = Expiration(clock, expiration),
                                      !.at = clock]]
    /\ UNCHANGED <<items, defaultExpiration, cleanupInterval, clock, muWriter,
                   muReaders, cleanupPc, cleanupNow, tickerNext, tickerChan, hist,
                   stopsCalled, stopsReturned>>

\* func (c *Cache) Set(key, value): SetWithExpiration with c.defaultExpiration
Set(p, k, v) == SetWithExpirationEnter(p, k, v, defaultExpiration)

\* func (c *Cache) SetWithExpiration(key, value, expiration)
SetWithExpiration(p, k, v, expiration) == SetWithExpirationEnter(p, k, v, expiration)

\* func (c *Cache) SetWithoutExpiration(key, value): SetWithExpiration with 0
SetWithoutExpiration(p, k, v) == SetWithExpirationEnter(p, k, v, 0)

\* The entry a key holds before a write, as the history keeps it: its
\* Expiration, or -1 when the key is not in the map.
PrevOf(m, k) == IF k \in DOMAIN m THEN m[k].Expiration ELSE -1

\* The history of a key after a Set* call stored its entry: the value and the
\* expiration argument of the call and, for a positive expiration, the clock
\* reading when the call began.
HistSet(f) ==
    [kind |-> "set", val |-> f.value, ttl |-> f.expiration,
     at |-> IF 0 < f.expiration THEN f.at ELSE 0]

\* The history of a key after a Delete call removed it
HistDelete == [NoWrite EXCEPT !.kind = "delete"]

\* Variant: the Expiration is worked out from the clock read under the lock
SetWithExpirationStoreLateClock(p) ==
    /\ frame[p].pc = "set_lock"
    /\ CanLock
    /\ muWriter' = p
    /\ items' = MapStore(items, frame[p].key,
                         Item(frame[p].value, Expiration(clock, frame[p].expiration)))
    /\ hist' = [hist EXCEPT ![frame[p].key] = HistSet(frame[p])]
    /\ frame' = [frame EXCEPT ![p].pc = "set_return",
                              ![p].prev = PrevOf(items, frame[p].key)]
    /\ UNCHANGED <<defaultExpiration, cleanupInterval, clock, muReaders, cleanupPc,
                   cleanupNow, tickerNext, tickerChan, opsLeft, stopsCalled,
                   stopsReturned>>

\* SetWithExpiration, lines 59-64: c.mu.Lock(), then
\* c.items[key] = Item{Value: value, Expiration: exp}
SetWithExpirationStore(p) ==
    /\ frame[p].pc = "set_lock"
    /\ CanLock
    /\ muWriter' = p
    /\ items' = MapStore(items, frame[p].key, Item(frame[p].value, frame[p].exp))
    /\ hist' = [hist EXCEPT ![frame[p].key] = HistSet(frame[p])]
    /\ frame' = [frame EXCEPT ![p].pc = "set_return",
                              ![p].prev = PrevOf(items, frame[p].key)]
    /\ UNCHANGED <<defaultExpiration, cleanupInterval, clock, muReaders, cleanupPc,
                   cleanupNow, tickerNext, tickerChan, opsLeft, stopsCalled,
                   stopsReturned>>

\* SetWithExpiration, line 60: the deferred c.mu.Unlock(), and the return
SetWithExpirationReturn(p) ==
    /\ frame[p].pc = "set_return"
    /\ muWriter = p
    /\ muWriter' = NoHolder
    /\ frame' = [frame EXCEPT ![p] = IdleFrame]
    /\ UNCHANGED <<items, defaultExpiration, cleanupInterval, clock, muReaders,
                   cleanupPc, cleanupNow, tickerNext, tickerChan, hist, opsLeft,
                   stopsCalled, stopsReturned>>

\* ------------------------------------------------------------------ Delete

\* Delete, lines 74-76: c.mu.Lock(), then delete(c.items, key)
Delete(p, k) ==
    /\ frame[p].pc = "idle"
    /\ opsLeft > 0
    /\ CanLock
    /\ opsLeft' = opsLeft - 1
    /\ muWriter' = p
    /\ items' = MapDelete(items, k)
    /\ hist' = [hist EXCEPT ![k] = HistDelete]
    /\ frame' = [frame EXCEPT ![p] =
                    [IdleFrame EXCEPT !.pc = "delete_return", !.key = k,
                                      !.prev = PrevOf(items, k)]]
    /\ UNCHANGED <<defaultExpiration, cleanupInterval, clock, muReaders, cleanupPc,
                   cleanupNow, tickerNext, tickerChan, stopsCalled, stopsReturned>>

\* Delete, line 75: the deferred c.mu.Unlock(), and the return
DeleteReturn(p) ==
    /\ frame[p].pc = "delete_return"
    /\ muWriter = p
    /\ muWriter' = NoHolder
    /\ frame' = [frame EXCEPT ![p] = IdleFrame]
    /\ UNCHANGED <<items, defaultExpiration, cleanupInterval, clock, muReaders,
                   cleanupPc, cleanupNow, tickerNext, tickerChan, hist, opsLeft,
                   stopsCalled, stopsReturned>>

\* --------------------------------------------------------------------- Get

\* Variant: an item is expired from the instant of its Expiration on
ItemExpiredAtInstant(expiration, now) == 0 < expiration /\ expiration <= now

\* Get, line 89: the item counts as expired when
\* 0 < item.Expiration && item.Expiration < c.clock.Now().UnixNano()
ItemExpired(expiration, now) == 0 < expiration /\ expiration < now

\* Get, lines 84-94, the value returned: nil for a missing key and for an
\* expired item, item.Value otherwise
GetValue(m, k, now) ==
    IF k \notin DOMAIN m THEN Nil
    ELSE IF ItemExpired(m[k].Expiration, now) THEN Nil
    ELSE m[k].Value

\* Variant: Get finds every key that is in the map
GetFoundWhileInMap(m, k, now) == k \in DOMAIN m

\* Get, lines 84-94, the boolean returned
GetFound(m, k, now) ==
    IF k \notin DOMAIN m THEN FALSE
    ELSE IF ItemExpired(m[k].Expiration, now) THEN FALSE
    ELSE TRUE

\* Get, line 89: c.clock.Now() is evaluated, between the RLock of line 81
\* and the deferred RUnlock of line 82, when the key is found and
\* 0 < item.Expiration (the && does not evaluate it otherwise)
GetReadsClock(m, k) == k \in DOMAIN m /\ 0 < m[k].Expiration

\* Get, line 90: c.logger.Debug(...) is called, between the same RLock and
\* RUnlock, when the item is expired
GetLogs(m, k, now) == k \in DOMAIN m /\ ItemExpired(m[k].Expiration, now)

\* Variant: Get deletes the expired item it finds
GetItemsEager(m, k, now) ==
    IF k \in DOMAIN m /\ ItemExpired(m[k].Expiration, now) THEN MapDelete(m, k) ELSE m

\* Get, lines 84-94, the map it leaves: it deletes nothing
GetItems(m, k, now) == m

\* Get, lines 81-94: c.mu.RLock(), the lookup, and for a key that is found
\* the comparison of its Expiration with the clock, read under the read lock
Get(p, k) ==
    /\ frame[p].pc = "idle"
    /\ CanRLock
    /\ muReaders' = muReaders \cup {p}
    /\ items' = GetItems(items, k, clock)
    /\ frame' = [frame EXCEPT ![p] =
                    [IdleFrame EXCEPT !.pc = "get_return", !.key = k,
                                      !.value = GetValue(items, k, clock),
                                      !.found = GetFound(items, k, clock),
                                      !.now = clock]]
    /\ UNCHANGED <<defaultExpiration, cleanupInterval, clock, muWriter, cleanupPc,
                   cleanupNow, tickerNext, tickerChan, hist, opsLeft, stopsCalled,
                   stopsReturned>>

\* Get, line 82: the deferred c.mu.RUnlock(), and the return to the caller
GetReturn(p) ==
    /\ frame[p].pc = "get_return"
    /\ p \in muReaders
    /\ muReaders' = muReaders \ {p}
    /\ frame' = [frame EXCEPT ![p] = IdleFrame]
    /\ UNCHANGED <<items, defaultExpiration, cleanupInterval, clock, muWriter,
                   cleanupPc, cleanupNow, tickerNext, tickerChan, hist, opsLeft,
                   stopsCalled, stopsReturned>>

\* -------------------------------------------------------- cleanup goroutine

\* Variant: the new ticker has a tick in its channel from the start
StartCleanupTimerTickAtOnce ==
    /\ cleanupPc = "start"
    /\ tickerNext' = clock + cleanupInterval
    /\ tickerChan' = TRUE
    /\ cleanupPc' = "select"
    /\ UNCHANGED <<items, defaultExpiration, cleanupInterval, clock, muWriter,
                   muReaders, frame, cleanupNow, hist, opsLeft, stopsCalled,
                   stopsReturned>>

\* startCleanupTimer, line 128: ticker := c.clock.NewTicker(c.cleanupInterval),
\* run by the goroutine NewCache started (line 34)
StartCleanupTimer ==
    /\ cleanupPc = "start"
    /\ tickerNext' = clock + cleanupInterval
    /\ cleanupPc' = "select"
    /\ UNCHANGED <<items, defaultExpiration, cleanupInterval, clock, muWriter,
                   muReaders, frame, cleanupNow, tickerChan, hist, opsLeft,
                   stopsCalled, stopsReturned>>

\* startCleanupTimer, lines 132-134: the select receives from ticker.Chan()
\* and calls c.deleteExpired()
SelectTick ==
    /\ cleanupPc = "select"
    /\ tickerChan
    /\ tickerChan' = FALSE
    /\ cleanupPc' = "sweep_now"
    /\ UNCHANGED <<items, defaultExpiration, cleanupInterval, clock, muWriter,
                   muReaders, frame, cleanupNow, tickerNext, hist, opsLeft,
                   stopsCalled, stopsReturned>>

\* Variant: the sweep takes a reading one ahead of the clock
DeleteExpiredNowAhead ==
    /\ cleanupPc = "sweep_now"
    /\ cleanupNow' = clock + 1
    /\ cleanupPc' = "sweep_lock"
    /\ UNCHANGED <<items, defaultExpiration, cleanupInterval, clock, muWriter,
                   muReaders, frame, tickerNext, tickerChan, hist, opsLeft,
                   stopsCalled, stopsReturned>>

\* deleteExpired, line 144: now := c.clock.Now().UnixNano(), before the lock
DeleteExpiredNow ==
    /\ cleanupPc = "sweep_now"
    /\ cleanupNow' = clock
    /\ cleanupPc' = "sweep_lock"
    /\ UNCHANGED <<items, defaultExpiration, cleanupInterval, clock, muWriter,
                   muReaders, frame, tickerNext, tickerChan, hist, opsLeft,
                   stopsCalled, stopsReturned>>

\* Variant: the sweep does not spare Expiration 0
ShouldDeleteZero(expiration, now) == expiration < now

\* Variant: the sweep deletes from the instant of the Expiration on
ShouldDeleteAtInstant(expiration, now) == 0 < expiration /\ expiration <= now

\* Variant: the sweep compares the wrong way round
ShouldDeleteLive(expiration, now) == 0 < expiration /\ now < expiration

\* deleteExpired, line 150: 0 < v.Expiration && v.Expiration < now
ShouldDelete(expiration, now) == 0 < expiration /\ expiration < now

RECURSIVE DeleteExpiredLoop(_, _, _)

\* deleteExpired, lines 149-153: for k, v := range c.items { if ... delete }
\* `keys` are the keys the range has still to visit, in any order.
DeleteExpiredLoop(m, keys, now) ==
    IF keys = {} THEN m
    ELSE LET k == CHOOSE x \in keys : TRUE
         IN  DeleteExpiredLoop(
                 IF ShouldDelete(m[k].Expiration, now) THEN MapDelete(m, k) ELSE m,
                 keys \ {k}, now)

\* deleteExpired, line 146: the call of c.mu.Lock(); the goroutine waits in it
DeleteExpiredLock ==
    /\ cleanupPc = "sweep_lock"
    /\ cleanupPc' = "sweep_wait"
    /\ UNCHANGED <<items, defaultExpiration, cleanupInterval, clock, muWriter,
                   muReaders, frame, cleanupNow, tickerNext, tickerChan, hist,
                   opsLeft, stopsCalled, stopsReturned>>

\* deleteExpired, lines 146-153: c.mu.Lock() returns, then the range over
\* c.items with the now captured at line 144
DeleteExpiredRange ==
    /\ cleanupPc = "sweep_wait"
    /\ CanLock
    /\ muWriter' = Cleaner
    /\ items' = DeleteExpiredLoop(items, DOMAIN items, cleanupNow)
    /\ cleanupPc' = "sweep_return"
    /\ UNCHANGED <<defaultExpiration, cleanupInterval, clock, muReaders, frame,
                   cleanupNow, tickerNext, tickerChan, hist, opsLeft, stopsCalled,
                   stopsReturned>>

\* deleteExpired, line 147: the deferred c.mu.Unlock(); back to the select
DeleteExpiredReturn ==
    /\ cleanupPc = "sweep_return"
    /\ muWriter = Cleaner
    /\ muWriter' = NoHolder
    /\ cleanupNow' = 0
    /\ cleanupPc' = "select"
    /\ UNCHANGED <<items, defaultExpiration, cleanupInterval, clock, muReaders,
                   frame, tickerNext, tickerChan, hist, opsLeft, stopsCalled,
                   stopsReturned>>

\* -------------------------------------------------------------------- Stop

\* Variant: Stop does not wait for the cleanup goroutine to receive
StopWithoutWaiting(p) ==
    /\ frame[p].pc = "idle"
    /\ opsLeft > 0
    /\ opsLeft' = opsLeft - 1
    /\ stopsCalled' = stopsCalled + 1
    /\ stopsReturned' = stopsReturned + 1
    /\ UNCHANGED <<items, defaultExpiration, cleanupInterval, clock, muWriter,
                   muReaders, frame, cleanupPc, cleanupNow, tickerNext, tickerChan,
                   hist>>

\* Variant: Stop sends on c.stopCleanup whatever the cleanup interval is
StopAlwaysSends(p) ==
    /\ frame[p].pc = "idle"
    /\ opsLeft > 0
    /\ opsLeft' = opsLeft - 1
    /\ stopsCalled' = stopsCalled + 1
    /\ frame' = [frame EXCEPT ![p] = [IdleFrame EXCEPT !.pc = "stop_send"]]
    /\ UNCHANGED <<items, defaultExpiration, cleanupInterval, clock, muWriter,
                   muReaders, cleanupPc, cleanupNow, tickerNext, tickerChan, hist,
                   stopsReturned>>

\* Variant: Stop returns at once when the cleanup goroutine has ended
StopNoopWhenExited(p) ==
    /\ frame[p].pc = "idle"
    /\ opsLeft > 0
    /\ opsLeft' = opsLeft - 1
    /\ stopsCalled' = stopsCalled + 1
    /\ IF 0 < cleanupInterval /\ cleanupPc # "exited"
         THEN /\ frame' = [frame EXCEPT ![p] = [IdleFrame EXCEPT !.pc = "stop_send"]]
              /\ UNCHANGED stopsReturned
         ELSE /\ stopsReturned' = stopsReturned + 1
              /\ UNCHANGED frame
    /\ UNCHANGED <<items, defaultExpiration, cleanupInterval, clock, muWriter,
                   muReaders, cleanupPc, cleanupNow, tickerNext, tickerChan, hist>>

\* Stop, lines 157-161: with 0 < c.cleanupInterval the caller sends on the
\* unbuffered c.stopCleanup and waits for a receiver; otherwise it returns.
Stop(p) ==
    /\ frame[p].pc = "idle"
    /\ opsLeft > 0
    /\ opsLeft' = opsLeft - 1
    /\ stopsCalled' = stopsCalled + 1
    /\ IF 0 < cleanupInterval
         THEN /\ frame' = [frame EXCEPT ![p] = [IdleFrame EXCEPT !.pc = "stop_send"]]
              /\ UNCHANGED stopsReturned
         ELSE /\ stopsReturned' = stopsReturned + 1
              /\ UNCHANGED frame
    /\ UNCHANGED <<items, defaultExpiration, cleanupInterval, clock, muWriter,
                   muReaders, cleanupPc, cleanupNow, tickerNext, tickerChan, hist>>

\* Variant: the select receives the stop signal and goes round the loop again
SelectStopAndLoop(p) ==
    /\ cleanupPc = "select"
    /\ frame[p].pc = "stop_send"
    /\ frame' = [frame EXCEPT ![p] = IdleFrame]
    /\ stopsReturned' = stopsReturned + 1
    /\ UNCHANGED <<items, defaultExpiration, cleanupInterval, clock, muWriter,
                   muReaders, cleanupPc, cleanupNow, tickerNext, tickerChan, hist,
                   opsLeft, stopsCalled>>

\* startCleanupTimer, lines 135-136 with Stop, line 159: the select receives
\* the value a caller is sending on c.stopCleanup; the goroutine returns
\* (running the deferred ticker.Stop() of line 129) and the sender's Stop
\* returns.
SelectStop(p) ==
    /\ cleanupPc = "select"
    /\ frame[p].pc = "stop_send"
    /\ cleanupPc' = "exited"
    /\ tickerNext' = 0
    /\ frame' = [frame EXCEPT ![p] = IdleFrame]
    /\ stopsReturned' = stopsReturned + 1
    /\ UNCHANGED <<items, defaultExpiration, cleanupInterval, clock, muWriter,
                   muReaders, cleanupNow, tickerChan, hist, opsLeft, stopsCalled>>

\* ------------------------------------------------------------------- clock

\* The reading at which a ticker due at `next` fires after the clock reached
\* `now` (now >= next): the first multiple of the interval past now.
NextTick(next, interval, now) == next + (((now - next) \div interval) + 1) * interval

\* Variant: the clock can also be set back by d
AdvanceEitherWay(d) ==
    /\ \E c \in {clock + d, clock - d} :
           /\ ClockStart <= c
           /\ c <= MaxClock
           /\ clock' = c
           /\ IF tickerNext # 0 /\ tickerNext <= c
                THEN /\ tickerChan' = TRUE
                     /\ tickerNext' = NextTick(tickerNext, cleanupInterval, c)
                ELSE UNCHANGED <<tickerChan, tickerNext>>
    /\ UNCHANGED <<items, defaultExpiration, cleanupInterval, muWriter, muReaders,
                   frame, cleanupPc, cleanupNow, hist, opsLeft, stopsCalled,
                   stopsReturned>>

\* clock.Advance(d) of the injected clock (the elapsing of real time for the
\* real clock): a ticker whose time has come puts one tick in its channel,
\* which buffers a single tick.
Advance(d) ==
    /\ clock + d <= MaxClock
    /\ clock' = clock + d
    /\ IF tickerNext # 0 /\ tickerNext <= clock + d
         THEN /\ tickerChan' = TRUE
              /\ tickerNext' = NextTick(tickerNext, cleanupInterval, clock + d)
         ELSE UNCHANGED <<tickerChan, tickerNext>>
    /\ UNCHANGED <<items, defaultExpiration, cleanupInterval, muWriter, muReaders,
                   frame, cleanupPc, cleanupNow, hist, opsLeft, stopsCalled,
                   stopsReturned>>

\* ------------------------------------------------------------ specification

\* Goroutines, keys and values are interchangeable, so of the idle
\* goroutines, of the keys and of the values that nothing in the state
\* mentions, one representative makes, or is passed to, the next call.
One(S) == IF S = {} THEN {} ELSE {CHOOSE x \in S : TRUE}

Callers == One({p \in Procs : frame[p].pc = "idle"})

UsedKeys == {k \in Keys : hist[k].kind # "none" \/ k \in DOMAIN items
                          \/ \E p \in Procs : frame[p].key = k}

UsedValues == {v \in Values : \/ \E k \in Keys : hist[k].val = v
                              \/ \E k \in DOMAIN items : items[k].Value = v
                              \/ \E p \in Procs : frame[p].value = v}

KeyArgs == UsedKeys \cup One(Keys \ UsedKeys)

ValueArgs == UsedValues \cup One(Values \ UsedValues)

Next ==
    \/ \E p \in Callers, k \in KeyArgs, v \in ValueArgs : Set(p, k, v)
    \/ \E p \in Callers, k \in KeyArgs, v \in ValueArgs, e \in Durations :
           SetWithExpiration(p, k, v, e)
    \/ \E p \in Callers, k \in KeyArgs, v \in ValueArgs : SetWithoutExpiration(p, k, v)
    \/ \E p \in Procs : SetWithExpirationStore(p)
    \/ \E p \in Procs : SetWithExpirationReturn(p)
    \/ \E p \in Callers, k \in KeyArgs : Delete(p, k)
    \/ \E p \in Procs : DeleteReturn(p)
    \/ \E p \in Callers, k \in KeyArgs : Get(p, k)
    \/ \E p \in Procs : GetReturn(p)
    \/ \E p \in Callers : Stop(p)
    \/ \E p \in Procs : SelectStop(p)
    \/ StartCleanupTimer
    \/ SelectTick
    \/ DeleteExpiredNow
    \/ DeleteExpiredLock
    \/ DeleteExpiredRange
    \/ DeleteExpiredReturn
    \/ \E d \in Steps : Advance(d)

Spec == Init /\ [][Next]_vars

\* What the scheduling guarantees. The Go scheduler runs every runnable
\* goroutine, so the cleanup goroutine takes the step it is ready for and a
\* caller that holds the mutex goes on to its deferred unlock. A goroutine
\* waiting in Lock gets the mutex once the holders unlock (a waiting writer
\* holds back new readers, and sync.Mutex hands over to a starved waiter).
\* A select with several ready cases picks among them at random, so a stop
\* signal that is offered again and again is received.
Fairness ==
    /\ WF_vars(StartCleanupTimer)
    /\ WF_vars(SelectTick)
    /\ WF_vars(DeleteExpiredNow)
    /\ WF_vars(DeleteExpiredLock)
    /\ SF_vars(DeleteExpiredRange)
    /\ WF_vars(DeleteExpiredReturn)
    /\ \A p \in Procs : WF_vars(SetWithExpirationReturn(p))
    /\ \A p \in Procs : WF_vars(DeleteReturn(p))
    /\ \A p \in Procs : WF_vars(GetReturn(p))
    /\ \A p \in Procs : SF_vars(SelectStop(p))

FairSpec == Init /\ [][Next]_vars /\ Fairness

\* ------------------------------------------------------------------ claims

\* A Get of goroutine p has its result and still holds the read lock, so the
\* history of its key is the last write that completed before its lookup.
Returned(p) == frame[p].pc = "get_return"

LastWrite(p) == hist[frame[p].key]

\* Get returned (v, true)
Found(p, v) == frame[p].found /\ frame[p].value = v

\* Get returned (_, false)
NotFound(p) == ~frame[p].found

\* C1: a Get(k) that runs right after Set*(k, v), with no clock advance since
\* that call began and no other write to k, returns (v, true). (A call that
\* never expires reads no clock, and is covered at every reading.)
C1_GetAfterSet ==
    \A p \in Procs :
        (/\ Returned(p)
         /\ LastWrite(p).kind = "set"
         /\ (0 < LastWrite(p).ttl => frame[p].now = LastWrite(p).at))
        => Found(p, LastWrite(p).val)

C1_Witness ==
    \E p \in Procs :
        /\ Returned(p)
        /\ LastWrite(p).kind = "set"
        /\ 0 < LastWrite(p).ttl
        /\ frame[p].now = LastWrite(p).at
        /\ Found(p, LastWrite(p).val)

\* C2 as stated: after SetWithExpiration(k, v, ttl) with ttl > 0 at reading t
\* and no later write to k, Get(k) returns (v, true) at every reading t' with
\* t' - t < ttl and (_, false) at every reading with t' - t >= ttl.
C2_ExpiredFromTTL ==
    \A p \in Procs :
        (Returned(p) /\ LastWrite(p).kind = "set" /\ 0 < LastWrite(p).ttl)
        => /\ frame[p].now - LastWrite(p).at < LastWrite(p).ttl
                => Found(p, LastWrite(p).val)
           /\ frame[p].now - LastWrite(p).at >= LastWrite(p).ttl => NotFound(p)

\* C2 amended: Get(k) returns (v, true) at every reading t' with
\* t' - t <= ttl, the instant t' - t = ttl included, and (_, false) at every
\* reading with t' - t > ttl.
C2_ExpiredAfterTTL ==
    \A p \in Procs :
        (Returned(p) /\ LastWrite(p).kind = "set" /\ 0 < LastWrite(p).ttl)
        => /\ frame[p].now - LastWrite(p).at <= LastWrite(p).ttl
                => Found(p, LastWrite(p).val)
           /\ frame[p].now - LastWrite(p).at > LastWrite(p).ttl => NotFound(p)

C2_Witness ==
    \E p \in Procs :
        /\ Returned(p)
        /\ LastWrite(p).kind = "set"
        /\ 0 < LastWrite(p).ttl
        /\ frame[p].now - LastWrite(p).at = LastWrite(p).ttl
        /\ Found(p, LastWrite(p).val)

\* C3: once Delete(k) has removed k, whatever entry k held, the key is out of
\* the map and Get(k) returns (_, false), until the next Set* on k stores.
C3_GetAfterDelete ==
    /\ \A p \in Procs :
           frame[p].pc = "delete_return" => frame[p].key \notin DOMAIN items
    /\ \A k \in Keys : hist[k].kind = "delete" => k \notin DOMAIN items
    /\ \A p \in Procs :
           (Returned(p) /\ LastWrite(p).kind = "delete")
           => NotFound(p) /\ frame[p].value = Nil

C3_Witness ==
    \E p \in Procs : Returned(p) /\ LastWrite(p).kind = "delete" /\ NotFound(p)

\* C4: an entry written with a ttl <= 0 (SetWithoutExpiration, a ttl <= 0
\* passed to SetWithExpiration, Set with default TTL 0) is stored with
\* Expiration 0, stays in the map through every clock advance and sweep, and
\* is returned as (v, true) by every Get.
C4_NeverExpires ==
    /\ \A k \in Keys :
           (hist[k].kind = "set" /\ hist[k].ttl <= 0)
           => k \in DOMAIN items /\ items[k] = Item(hist[k].val, 0)
    /\ \A p \in Procs :
           (Returned(p) /\ LastWrite(p).kind = "set" /\ LastWrite(p).ttl <= 0)
           => Found(p, LastWrite(p).val)

\* A sweep has just gone over the map, later than the clock's first reading,
\* and an entry written with a ttl <= 0 is in it.
C4_Witness ==
    /\ cleanupPc = "sweep_return"
    /\ cleanupNow > ClockStart
    /\ \E k \in DOMAIN items : hist[k].kind = "set" /\ hist[k].ttl <= 0

\* C5: a Set* on a key stores exactly (value, reading at the call + ttl), or
\* (value, 0) for a ttl <= 0, whatever entry the key held before; so a key
\* that is set again is found for the whole of the new ttl, also after the
\* Expiration of the entry that was replaced.
C5_OverwriteResets ==
    /\ \A p \in Procs :
           frame[p].pc = "set_return"
           => /\ frame[p].key \in DOMAIN items
              /\ items[frame[p].key] =
                     Item(frame[p].value,
                          IF 0 < frame[p].expiration
                            THEN frame[p].at + frame[p].expiration ELSE 0)
    /\ \A p \in Procs :
           (/\ Returned(p)
            /\ LastWrite(p).kind = "set"
            /\ 0 < LastWrite(p).ttl
            /\ frame[p].now <= LastWrite(p).at + LastWrite(p).ttl)
           => Found(p, LastWrite(p).val)

\* A Set* has just replaced an entry that was set again before it expired;
\* the old Expiration has passed and the new entry is not expired.
C5_Witness ==
    \E p \in Procs :
        /\ frame[p].pc = "set_return"
        /\ 0 < frame[p].prev
        /\ frame[p].at <= frame[p].prev
        /\ frame[p].prev < clock
        /\ ~ItemExpired(items[frame[p].key].Expiration, clock)

\* C6: no step of Get changes the map; an entry that Get reports absent
\* because it expired is still in the map when Get returns.
C6_GetLeavesMap ==
    [][((\E p \in Procs, k \in Keys : Get(p, k)) \/ (\E p \in Procs : GetReturn(p)))
       => items' = items]_vars

\* A Get has reported an entry absent that is in the map
C6_Witness ==
    \E p \in Procs : Returned(p) /\ NotFound(p) /\ frame[p].key \in DOMAIN items

\* C7: a sweep removes, of the entries in the map when it takes the lock,
\* exactly those whose Expiration is not 0 and less than the one reading
\* `now` it took; every other entry stays as it is.
C7_SweepRemovesExpired ==
    [][DeleteExpiredRange
       => /\ DOMAIN items' =
                {k \in DOMAIN items :
                    ~(items[k].Expiration # 0 /\ items[k].Expiration < cleanupNow)}
          /\ \A k \in DOMAIN items' : items'[k] = items[k]]_vars

\* A sweep has just removed one entry and left another
C7_Witness ==
    /\ cleanupPc = "sweep_return"
    /\ \E k \in Keys : hist[k].kind = "set" /\ k \notin DOMAIN items
    /\ \E k \in DOMAIN items : items[k].Expiration >= cleanupNow

\* C8: on a store whose cleanup goroutine runs and that nobody stops, once a
\* tick has fired while an entry is expired, the entry leaves the map (or is
\* overwritten): the sweep removes it, Get's hiding it is not all.
C8_SweepEventuallyRemoves ==
    \A k \in Keys, e \in 1..MaxClock :
        (/\ tickerChan
         /\ cleanupPc \notin {"none", "exited"}
         /\ k \in DOMAIN items
         /\ items[k].Expiration = e
         /\ ItemExpired(e, clock))
        ~> (\/ k \notin DOMAIN items
            \/ items[k].Expiration # e
            \/ stopsCalled > 0)

\* A sweep has just removed the entry a Set* call stored
C8_Witness ==
    /\ cleanupPc = "sweep_return"
    /\ stopsCalled = 0
    /\ \E k \in Keys : hist[k].kind = "set" /\ 0 < hist[k].ttl /\ k \notin DOMAIN items

\* C9: the one call of Stop on a store with a cleanup goroutine returns,
\* wherever that goroutine is when Stop is called; the goroutine has then
\* ended, and once ended it never runs again.
C9_StopReturns ==
    /\ \A p \in Procs :
           (frame[p].pc = "stop_send" /\ stopsCalled = 1)
           ~> (frame[p].pc # "stop_send" \/ stopsCalled > 1)
    /\ [](stopsReturned > 0 /\ 0 < cleanupInterval => cleanupPc = "exited")
    /\ [][cleanupPc = "exited" => cleanupPc' = "exited"]_vars

\* The one Stop has returned and the goroutine has ended, with a tick it did
\* not take left in the ticker's channel
C9_Witness ==
    /\ stopsCalled = 1
    /\ stopsReturned = 1
    /\ cleanupPc = "exited"
    /\ tickerChan

\* C10: once a Stop has returned, the cleanup goroutine takes no step and no
\* sweep removes anything: the map changes only by the store of a Set* or by
\* a Delete, and Get goes on answering from the last write of the key, an
\* expired entry reported absent and left in the map.
C10_NoSweepAfterStop ==
    /\ [][stopsReturned > 0
          => /\ ~(SelectTick \/ DeleteExpiredNow \/ DeleteExpiredLock
                  \/ DeleteExpiredRange \/ DeleteExpiredReturn
                  \/ StartCleanupTimer)
             /\ items' # items
                  => \/ \E p \in Procs : SetWithExpirationStore(p)
                     \/ \E p \in Procs, k \in Keys : Delete(p, k)]_vars
    /\ [](stopsReturned > 0
          => \A p \in Procs :
                 Returned(p)
                 => IF /\ LastWrite(p).kind = "set"
                       /\ (0 < LastWrite(p).ttl
                             => frame[p].now <= LastWrite(p).at + LastWrite(p).ttl)
                      THEN Found(p, LastWrite(p).val)
                      ELSE NotFound(p))

\* After Stop returned on a store with a cleanup goroutine, a Get has
\* reported absent an expired entry that is still in the map
C10_Witness ==
    /\ stopsReturned > 0
    /\ 0 < cleanupInterval
    /\ \E p \in Procs : Returned(p) /\ NotFound(p) /\ frame[p].key \in DOMAIN items

\* C11: on a store made with cleanup interval 0 there is no cleanup goroutine
\* and no ticker, no sweep runs, and every call of Stop, the first and the
\* later ones, returns in its own step, blocked nowhere, and leaves the map,
\* the mutex, the clock and every goroutine as they were.
C11_StopWithoutCleanup ==
    /\ [](cleanupInterval = 0
          => /\ cleanupPc = "none"
             /\ muWriter # Cleaner
             /\ tickerNext = 0
             /\ ~tickerChan
             /\ stopsReturned = stopsCalled
             /\ \A p \in Procs : frame[p].pc # "stop_send")
    /\ [][cleanupInterval = 0
          => /\ ~(StartCleanupTimer \/ SelectTick \/ DeleteExpiredNow
                  \/ DeleteExpiredLock \/ DeleteExpiredRange
                  \/ DeleteExpiredReturn)
             /\ stopsCalled' # stopsCalled
                  => UNCHANGED <<items, defaultExpiration, cleanupInterval, clock,
                                 muWriter, muReaders, frame, cleanupPc, cleanupNow,
                                 tickerNext, tickerChan, hist>>]_vars

\* Stop has been called twice on a store without cleanup, and returned twice
C11_Witness ==
    /\ cleanupInterval = 0
    /\ stopsCalled = 2
    /\ stopsReturned = 2

\* C12: on a store with a cleanup goroutine at most one Stop ever returns: a
\* Stop that is sending when the goroutine has ended stays in its send in
\* every later step, with no receiver left to take it.
C12_SecondStopBlocks ==
    /\ [](0 < cleanupInterval => stopsReturned <= 1)
    /\ [](stopsReturned > 0 /\ 0 < cleanupInterval
          => ~(\E p \in Procs : ENABLED SelectStop(p)))
    /\ [][\A p \in Procs :
            (cleanupPc = "exited" /\ frame[p].pc = "stop_send")
            => frame'[p].pc = "stop_send"]_vars

\* The first Stop returned, the goroutine has ended, and a second Stop is in
\* its send
C12_Witness ==
    /\ cleanupPc = "exited"
    /\ stopsCalled = 2
    /\ stopsReturned = 1
    /\ \E p \in Procs : frame[p].pc = "stop_send"

\* The goroutines between taking c.mu.Lock() and their deferred Unlock
Writing ==
    {p \in Procs : frame[p].pc \in {"set_return", "delete_return"}}
        \cup (IF cleanupPc = "sweep_return" THEN {Cleaner} ELSE {})

\* The goroutines between taking c.mu.RLock() and their deferred RUnlock
Reading == {p \in Procs : frame[p].pc = "get_return"}

\* C13: at most one of the Set*, Delete and sweep is between its Lock and its
\* Unlock, and then no Get is between its RLock and its RUnlock; Gets may
\* overlap each other. The map changes only in a step that takes the free
\* mutex exclusively, and a Get has its result only as a holder of the read
\* lock.
C13_AccessDiscipline ==
    /\ [](/\ Cardinality(Writing) <= 1
          /\ Writing # {} => Reading = {}
          /\ Writing = (IF muWriter = NoHolder THEN {} ELSE {muWriter})
          /\ Reading = muReaders)
    /\ [][items' # items
          => /\ muWriter = NoHolder
             /\ muReaders = {}
             /\ muWriter' # NoHolder
             /\ muReaders' = {}]_vars

\* Two Gets hold the read lock at the same time
C13_Witness ==
    /\ Cardinality(Reading) = 2
    /\ muWriter = NoHolder

\* The entry the call recorded in a key's history stored
StoredBy(h) == Item(h.val, Expiration(h.at, h.ttl))

\* C14: the entry of a key is the one stored by the Set* call that took the
\* lock last, value and Expiration both, in whatever order the calls began
\* and read the clock (only a sweep can have removed it, and then it had an
\* Expiration); a Get returns the value of the last store made before its
\* lookup, or nothing.
C14_LastWriterWins ==
    /\ \A k \in Keys :
           hist[k].kind = "set"
           => IF k \in DOMAIN items THEN items[k] = StoredBy(hist[k])
              ELSE 0 < hist[k].ttl
    /\ \A p \in Procs :
           Returned(p)
           => \/ LastWrite(p).kind = "set" /\ Found(p, LastWrite(p).val)
              \/ NotFound(p) /\ frame[p].value = Nil

\* The call that read the clock first has stored last: its entry replaced one
\* with a later Expiration
C14_Witness ==
    \E p \in Procs :
        /\ frame[p].pc = "set_return"
        /\ 0 < frame[p].exp
        /\ frame[p].exp < frame[p].prev
        /\ items[frame[p].key] = Item(frame[p].value, frame[p].exp)

\* A Get of goroutine p that holds the read lock has read the clock (line 89)
\* or written to the logger (line 90) since it took the lock. The map cannot
\* change while p holds the read lock, so it is the map of the lookup.
ClockReadUnderLock(p) == Returned(p) /\ GetReadsClock(items, frame[p].key)

LoggedUnderLock(p) ==
    Returned(p) /\ GetLogs(items, frame[p].key, frame[p].now)

\* C15 as stated: no goroutine that holds the mutex, for reading or for
\* writing, has read the clock or written to the logger since it took it;
\* Set* and the sweep have taken their clock reading, and the sweep has
\* logged, before they hold it.
C15_LockOnlyAroundMap ==
    /\ \A p \in Procs : frame[p].pc = "set_lock" => muWriter # p
    /\ cleanupPc \in {"sweep_now", "sweep_lock", "sweep_wait"} => muWriter # Cleaner
    /\ \A p \in Procs :
           (p \in muReaders \/ muWriter = p)
           => ~ClockReadUnderLock(p) /\ ~LoggedUnderLock(p)

\* A Get holds the read lock and has read the clock and logged under it
C15_Witness ==
    \E p \in Procs : p \in muReaders /\ ClockReadUnderLock(p) /\ LoggedUnderLock(p)

\* C16: Get(k) returns (nil, false) exactly when k is not in the map or the
\* entry's Expiration is not 0 and less than the clock reading of that Get;
\* otherwise, so also when the reading equals the Expiration, it returns the
\* stored value and true.
C16_GetResult ==
    \A p \in Procs :
        Returned(p)
        => /\ NotFound(p)
                <=> \/ frame[p].key \notin DOMAIN items
                    \/ /\ items[frame[p].key].Expiration # 0
                       /\ items[frame[p].key].Expiration < frame[p].now
           /\ NotFound(p) => frame[p].value = Nil
           /\ frame[p].found => frame[p].value = items[frame[p].key].Value

\* A Get at the very reading of the entry's Expiration has found it
C16_Witness ==
    \E p \in Procs :
        /\ Returned(p)
        /\ frame[p].found
        /\ frame[p].key \in DOMAIN items
        /\ items[frame[p].key].Expiration = frame[p].now

\* The cleanup goroutine is inside deleteExpired
Sweeping == cleanupPc \in {"sweep_now", "sweep_lock", "sweep_wait", "sweep_return"}

\* C17: a key leaves the map only by a Delete of it or by a sweep, and the
\* cleanup goroutine enters a sweep only by taking a tick from the ticker's
\* channel. Until the clock has advanced a whole cleanup interval from its
\* first reading no tick has fired and no sweep has begun, so every entry
\* stored and not deleted is in the map; and while the goroutine waits in
\* its select with no tick in the channel, no entry leaves the map but by a
\* Delete, expired or not.
C17_RemovalOnlyByDeleteOrTick ==
    /\ [][\A k \in DOMAIN items :
            k \notin DOMAIN items'
            => DeleteExpiredRange \/ \E p \in Procs : Delete(p, k)]_vars
    /\ [][~Sweeping /\ Sweeping' => tickerChan /\ ~tickerChan']_vars
    /\ [](0 < cleanupInterval /\ clock < ClockStart + cleanupInterval
          => /\ ~tickerChan
             /\ ~Sweeping
             /\ \A k \in Keys : hist[k].kind = "set" => k \in DOMAIN items)
    /\ [][cleanupPc = "select" /\ ~tickerChan
          => \A k \in DOMAIN items :
                 k \notin DOMAIN items' => \E p \in Procs : Delete(p, k)]_vars

\* With the cleanup goroutine waiting and no tick fired, a Get has reported
\* absent an expired entry that is still in the map
C17_Witness ==
    /\ 0 < cleanupInterval
    /\ cleanupPc = "select"
    /\ ~tickerChan
    /\ stopsCalled = 0
    /\ \E p \in Procs :
           /\ Returned(p)
           /\ NotFound(p)
           /\ frame[p].key \in DOMAIN items
           /\ ItemExpired(items[frame[p].key].Expiration, frame[p].now)

\* C18: a Delete(k) takes k out of the map and leaves every other entry as
\* it is, so on a key that is not in the map it leaves the whole map as it
\* is; it has no result; and deleting k twice gives the map that deleting it
\* once gives.
C18_DeleteIdempotent ==
    /\ [][\A p \in Procs, k \in Keys :
            Delete(p, k)
            => /\ DOMAIN items' = DOMAIN items \ {k}
               /\ \A x \in DOMAIN items' : items'[x] = items[x]
               /\ k \notin DOMAIN items => items' = items
               /\ frame'[p].value = Nil
               /\ ~frame'[p].found]_vars
    /\ [](\A k \in Keys :
              /\ MapDelete(MapDelete(items, k), k) = MapDelete(items, k)
              /\ k \notin DOMAIN items => MapDelete(items, k) = items)

\* The second of two Deletes of one key, the only two calls made, has run:
\* the key was not in the map
C18_Witness ==
    /\ cleanupInterval = 0
    /\ opsLeft = 0
    /\ stopsCalled = 0
    /\ \E p \in Procs :
           /\ frame[p].pc = "delete_return"
           /\ frame[p].prev = -1
           /\ \A q \in Procs : frame[q].pc # "set_lock"
           /\ \A k \in Keys \ {frame[p].key} : hist[k].kind = "none"

\* The map of a store that runs the same calls and never sweeps: for each
\* key, what the last Set* or Delete that took the lock left there.
UnsweptItems ==
    [k \in {x \in Keys : hist[x].kind = "set"} |-> StoredBy(hist[k])]

\* C19: every entry a sweep deletes is, at the clock reading of the step
\* that deletes it, one that Get reports absent, although the sweep compares
\* with a reading it took before it had the lock. So the map is the map of
\* the store that never sweeps less some entries that are expired, and
\* every Get returns what it would return from that store.
C19_SweepInvisible ==
    /\ [][DeleteExpiredRange
          => \A k \in DOMAIN items \ DOMAIN items' :
                 ItemExpired(items[k].Expiration, clock)]_vars
    /\ [](/\ DOMAIN items \subseteq DOMAIN UnsweptItems
          /\ \A k \in DOMAIN UnsweptItems :
                 IF k \in DOMAIN items THEN items[k] = UnsweptItems[k]
                 ELSE ItemExpired(UnsweptItems[k].Expiration, clock))
    /\ [](\A p \in Procs :
              Returned(p)
              => /\ frame[p].found = GetFound(UnsweptItems, frame[p].key, frame[p].now)
                 /\ frame[p].value = GetValue(UnsweptItems, frame[p].key, frame[p].now))

\* A Get has reported absent a key whose entry a sweep has removed
C19_Witness ==
    \E p \in Procs :
        /\ Returned(p)
        /\ NotFound(p)
        /\ frame[p].key \in DOMAIN UnsweptItems
        /\ frame[p].key \notin DOMAIN items

\* C20: what a Get answers is GetFound of the map and the clock of its
\* step, and no step takes a key from not found to found but the store of a
\* Set* on that key: not a clock advance, a sweep, a Get, a Delete, a Stop,
\* nor a store on another key.
C20_NoResurrection ==
    /\ [][\A k \in Keys :
            (~GetFound(items, k, clock) /\ GetFound(items', k, clock'))
            => \E p \in Procs : SetWithExpirationStore(p) /\ frame[p].key = k]_vars
    /\ [](\A p \in Procs :
              Returned(p)
              => frame[p].found = GetFound(items, frame[p].key, frame[p].now))

\* Two Gets of a key that was written, one at a later reading than the
\* other, have both reported it absent
C20_Witness ==
    \E p \in Procs, q \in Procs :
        /\ Returned(p)
        /\ Returned(q)
        /\ frame[p].key = frame[q].key
        /\ frame[p].now < frame[q].now
        /\ NotFound(p)
        /\ NotFound(q)
        /\ LastWrite(p).kind # "none"

\* C21: every entry in the map has the value and the Expiration of one
\* Set* call, the last to store on its key: Expiration 0 for a ttl <= 0, and
\* otherwise the one clock reading that call took before it had the lock,
\* plus the ttl, however far the clock moved before the store. A call that
\* waits for the lock keeps the exp it worked out. The entry of a key
\* changes only in the store step of a Set* on that key: not in a Get, a
\* clock advance or a sweep, which can only remove it.
C21_EntryFromOneCall ==
    /\ [](\A k \in DOMAIN items :
              /\ hist[k].kind = "set"
              /\ items[k].Value = hist[k].val
              /\ items[k].Expiration =
                     (IF hist[k].ttl <= 0 THEN 0 ELSE hist[k].at + hist[k].ttl))
    /\ [](\A p \in Procs :
              frame[p].pc \in {"set_lock", "set_return"}
              => frame[p].exp =
                     (IF frame[p].expiration <= 0 THEN 0
                      ELSE frame[p].at + frame[p].expiration))
    /\ [][\A k \in DOMAIN items :
            (k \in DOMAIN items' /\ items'[k] # items[k])
            => \E p \in Procs : SetWithExpirationStore(p) /\ frame[p].key = k]_vars

\* A Set* with a ttl > 0 has stored after the clock moved on from the
\* reading the call took: the Expiration is that earlier reading plus the ttl
C21_Witness ==
    \E p \in Procs :
        /\ frame[p].pc = "set_return"
        /\ 0 < frame[p].expiration
        /\ frame[p].at < clock
        /\ items[frame[p].key].Expiration = frame[p].at + frame[p].expiration

====
